---- MODULE Spec2Model ----
(***************************************************************************)
(* A model of shindo.py: the JMA instrumental seismic intensity (shindo)   *)
(* computed from a three-channel acceleration record.                      *)
(*                                                                         *)
(* Numbers.                                                                *)
(*  - A binary floating-point value is the pair <<m, e>>, standing for     *)
(*    m * 2^e with m a non-negative integer and e >= Emin, the exponent of *)
(*    the smallest subnormal of an IEEE-754 double.  At e = Emin the       *)
(*    doubles are the fixed-point grid m * 2^Emin and a division by two is *)
(*    rounded half-to-even; above Emin the operations the search performs  *)
(*    (x/2, x - x/2, x + x/2) are exact as long as the significand fits,   *)
(*    which the model keeps true by stopping at MaxMant.  NaN is the pair  *)
(*    <<-1, 0>>.                                                           *)
(*  - The sampling period Ts and the exceedance time are integers in units *)
(*    of 1/10000 s (Ts = 100 is 0.01 s, T_ref = 3000 is 0.3 s).            *)
(*  - An intensity is an integer number of hundredths (I = 450 is 4.5).    *)
(***************************************************************************)
EXTENDS Integers, Sequences, FiniteSets, TLC

VARIABLES
    a,        \* getShindo: the raw record, a sequence of rows <<ns, ew, ud>>
    A,        \* getShindo/_filter: the spectrum, a sequence of bins of 3 channels
    f,        \* _filter: the frequency assigned to each bin, <<num, den>>
    Ts,       \* the sampling period, in 1/10000 s
    x,        \* _search_aval: the magnitude series it is given
    aval,     \* _search_aval: the working estimate
    pc,       \* where the call is
    xB,       \* a second magnitude series, searched side by side
    avalB,    \* the working estimate of the second search
    pcB,      \* where the second search is
    I_raw,    \* getShindo: the raw intensity rounded to two decimals
    I,        \* the intensity, getShindo's result and getShindoName's argument
    lang,     \* getShindoName: the language
    name      \* getShindoName: the label returned

vars == <<a, A, f, Ts, x, aval, pc, xB, avalB, pcB, I_raw, I, lang, name>>

----------------------------------------------------------------------------
(* Bounds of the model *)

\* the longest pattern a magnitude series is built from
MaxLen == 3
\* the longest pair of series searched side by side
MaxPairLen == 3
\* the largest significand the model follows
MaxMant == 100000000
\* the intensities drawn run from -MinI to MaxI, in hundredths
MinI == 400
MaxI == 800

----------------------------------------------------------------------------
(* Floating point *)

\* the exponent of the smallest subnormal double: 2^-1074 = 5e-324
Emin == -1074

NaN == <<-1, 0>>
IsNaN(v) == v[1] < 0

Min(i, j) == IF i < j THEN i ELSE j

RECURSIVE Pow2(_)
Pow2(n) == IF n = 0 THEN 1 ELSE 2 * Pow2(n - 1)

\* the floor and the ceiling of m / 2^d, for any d >= 0 and 0 <= m < 2^30
ShiftDown(m, d) == IF d >= 30 THEN 0 ELSE m \div Pow2(d)

ShiftDownCeil(m, d) ==
    IF d >= 30 THEN (IF m > 0 THEN 1 ELSE 0)
    ELSE (m + Pow2(d) - 1) \div Pow2(d)

\* v >= w as the doubles compare: false when either is NaN
FGeq(v, w) ==
    IF IsNaN(v) \/ IsNaN(w) THEN FALSE
    ELSE IF v[2] >= w[2]
         THEN v[1] >= ShiftDownCeil(w[1], v[2] - w[2])
         ELSE ShiftDown(v[1], w[2] - v[2]) >= w[1]

\* round(m / 2) to an integer, ties to even
RoundHalfEven(m) ==
    LET q == m \div 2
    IN  IF m % 2 = 0 THEN q ELSE IF q % 2 = 0 THEN q ELSE q + 1

\* v / 2: exact above Emin, rounded half-to-even on the subnormal grid
FHalf(v) ==
    IF v[2] > Emin THEN <<v[1], v[2] - 1>> ELSE <<RoundHalfEven(v[1]), Emin>>

\* v as a multiple of 2^e, for e <= v[2]
FAlign(v, e) == v[1] * Pow2(v[2] - e)

FSub(v, w) ==
    LET e == Min(v[2], w[2]) IN <<FAlign(v, e) - FAlign(w, e), e>>

FAdd(v, w) ==
    LET e == Min(v[2], w[2]) IN <<FAlign(v, e) + FAlign(w, e), e>>

\* the model follows a value only while its significand is exact
Exact(v) == v[1] <= MaxMant

----------------------------------------------------------------------------
(* _search_aval *)

\* aval = 2000.0 = 125 * 2^4
aval_init == <<125, 4>>
\* T_ref = 0.3
T_ref == 3000
\* epsilon = T_ref * 0.001
epsilon == T_ref \div 1000

\* the count with the comparison made strict: np.count_nonzero(a > aval)
count_nonzero_gt(s, t) ==
    Cardinality({i \in DOMAIN s : FGeq(s[i], t) /\ ~FGeq(t, s[i])})

\* the count with the comparison made an equality: np.count_nonzero(a == aval)
count_nonzero_eq(s, t) ==
    Cardinality({i \in DOMAIN s : FGeq(s[i], t) /\ FGeq(t, s[i])})

\* np.count_nonzero(a >= aval)
count_nonzero_geq(s, t) == Cardinality({i \in DOMAIN s : FGeq(s[i], t)})

T_above_aval(s, ts, t) == count_nonzero_geq(s, t) * ts

TooHighAt(s, ts, t) == T_above_aval(s, ts, t) < T_ref - epsilon
TooLowAt(s, ts, t) ==
    /\ ~TooHighAt(s, ts, t)
    /\ T_above_aval(s, ts, t) > T_ref + epsilon

\* the step with the division lost: aval -= aval
StepDown_whole(t) == FSub(t, t)
\* the step written as a plain halving: aval /= 2
StepDown_halve(t) == FHalf(t)

\* aval -= aval / 2
StepDown(t) == FSub(t, FHalf(t))
\* aval += aval / 2
StepUp(t) == FAdd(t, FHalf(t))

TooHigh ==
    /\ pc = "search"
    /\ TooHighAt(x, Ts, aval)
    /\ Exact(StepDown(aval))
    /\ aval' = StepDown(aval)
    /\ UNCHANGED <<a, A, f, Ts, x, pc, xB, avalB, pcB, I_raw, I, lang, name>>

TooLow ==
    /\ pc = "search"
    /\ TooLowAt(x, Ts, aval)
    /\ Exact(StepUp(aval))
    /\ aval' = StepUp(aval)
    /\ UNCHANGED <<a, A, f, Ts, x, pc, xB, avalB, pcB, I_raw, I, lang, name>>

Found ==
    /\ pc = "search"
    /\ ~TooHighAt(x, Ts, aval)
    /\ ~TooLowAt(x, Ts, aval)
    /\ pc' = "returned"
    /\ UNCHANGED <<a, A, f, Ts, x, aval, xB, avalB, pcB, I_raw, I, lang, name>>

----------------------------------------------------------------------------
(* The magnitude series the search is run on *)

\* 0, the neighbouring subnormals 2.5e-323 and 3e-323 (5e-324 is 2^Emin),
\* 2000 gal and 3000 gal
Samples == {<<0, Emin>>, <<5, Emin>>, <<6, Emin>>, <<125, 4>>, <<375, 3>>}

RECURSIVE SeqsUpTo(_, _)
SeqsUpTo(S, n) ==
    IF n = 0 THEN {<<>>}
    ELSE LET shorter == SeqsUpTo(S, n - 1)
         IN  shorter \cup {Append(s, v) : s \in shorter, v \in S}

Sorted(s) == \A i \in 1..(Len(s) - 1) : FGeq(s[i], s[i + 1])

\* each sample of p, r times over
Repeat(p, r) == [i \in 1..(Len(p) * r) |-> p[((i - 1) \div r) + 1]]

\* a sampling period with the number of times each sample is held
Rates == {<<3000, 1>>, <<1500, 1>>, <<100, 15>>}

Idle == <<0, 0>>

InitSearch ==
    /\ \E p \in {s \in SeqsUpTo(Samples, MaxLen) : Sorted(s)}, r \in Rates :
          /\ x = Repeat(p, r[2])
          /\ Ts = r[1]
    /\ aval = aval_init
    /\ pc = "search"
    /\ a = <<>> /\ A = <<>> /\ f = <<>>
    /\ xB = <<>> /\ avalB = Idle /\ pcB = "off"
    /\ I_raw = 0 /\ I = 0 /\ lang = "jp" /\ name = <<>>

NextSearch == TooHigh \/ TooLow \/ Found

\* the loop of _search_aval keeps running: no iteration waits on anything
SpecSearch == InitSearch /\ [][NextSearch]_vars /\ WF_vars(NextSearch)

----------------------------------------------------------------------------
(* Two searches, one after the other, on series ordered sample by sample *)

TooHighB ==
    /\ pc = "returned" /\ pcB = "search"
    /\ TooHighAt(xB, Ts, avalB)
    /\ Exact(StepDown(avalB))
    /\ avalB' = StepDown(avalB)
    /\ UNCHANGED <<a, A, f, Ts, x, aval, pc, xB, pcB, I_raw, I, lang, name>>

TooLowB ==
    /\ pc = "returned" /\ pcB = "search"
    /\ TooLowAt(xB, Ts, avalB)
    /\ Exact(StepUp(avalB))
    /\ avalB' = StepUp(avalB)
    /\ UNCHANGED <<a, A, f, Ts, x, aval, pc, xB, pcB, I_raw, I, lang, name>>

FoundB ==
    /\ pc = "returned" /\ pcB = "search"
    /\ ~TooHighAt(xB, Ts, avalB)
    /\ ~TooLowAt(xB, Ts, avalB)
    /\ pcB' = "returned"
    /\ UNCHANGED <<a, A, f, Ts, x, aval, pc, xB, avalB, I_raw, I, lang, name>>

\* 125, 500, 3000 and 5000 gal
PairSamples == {<<125, 0>>, <<125, 2>>, <<375, 3>>, <<625, 3>>}

Dominates(s, t) ==
    /\ Len(s) = Len(t)
    /\ \A i \in DOMAIN s : FGeq(s[i], t[i])

InitPair ==
    /\ \E s \in SeqsUpTo(PairSamples, MaxPairLen), t \in SeqsUpTo(PairSamples, MaxPairLen) :
          /\ Dominates(s, t)
          /\ x = s
          /\ xB = t
    /\ Ts \in {3000, 1500, 1000}
    /\ aval = aval_init /\ pc = "search"
    /\ avalB = aval_init /\ pcB = "search"
    /\ a = <<>> /\ A = <<>> /\ f = <<>>
    /\ I_raw = 0 /\ I = 0 /\ lang = "jp" /\ name = <<>>

NextPair == TooHigh \/ TooLow \/ Found \/ TooHighB \/ TooLowB \/ FoundB

SpecPair == InitPair /\ [][NextPair]_vars /\ WF_vars(NextPair)

----------------------------------------------------------------------------
(* np.fft.rfft, for the record lengths whose transform is exact *)

\* A complex number is <<re, im>>.  For N in {1, 2, 4} every twiddle factor
\* exp(-2 pi i j k / N) is a power of -i, so the transform of an integer
\* record is a Gaussian integer.
CAdd(u, v) == <<u[1] + v[1], u[2] + v[2]>>

\* r * (-i)^q for a real r
Turn(r, q) ==
    CASE q % 4 = 0 -> <<r, 0>>
      [] q % 4 = 1 -> <<0, 0 - r>>
      [] q % 4 = 2 -> <<0 - r, 0>>
      [] q % 4 = 3 -> <<0, r>>

\* sum over j >= from of rec[j][c] * exp(-2 pi i (j-1) k / N), N = Len(rec)
RECURSIVE DftSum(_, _, _, _)
DftSum(rec, c, k, from) ==
    IF from > Len(rec) THEN <<0, 0>>
    ELSE CAdd(Turn(rec[from][c], (4 \div Len(rec)) * (from - 1) * k),
              DftSum(rec, c, k, from + 1))

\* a spectral value: a finite complex number val, a finite number scaled by
\* the positive real weight of the frequency at (val * W(at)), or NaN
Num(v) == [kind |-> "num", val |-> v, at |-> <<0, 1>>]
Scaled(v, fr) == [kind |-> "scaled", val |-> v, at |-> fr]
CNaN == [kind |-> "nan", val |-> <<0, 0>>, at |-> <<0, 1>>]
CZero == Num(<<0, 0>>)

\* np.fft.rfft(a, axis = 0): Len(a) \div 2 + 1 bins of three channels
rfft(rec) ==
    [k \in 1..((Len(rec) \div 2) + 1) |->
        [c \in 1..3 |-> Num(DftSum(rec, c, k - 1, 1))]]

----------------------------------------------------------------------------
(* _filter *)

\* the frequency with the factor 2 lost: k / (N * Ts)
FilterFreq_single(k, N, ts) == <<k * 10000, N * ts>>

\* f = k / (N * Ts * 2), in Hz, as the fraction <<num, den>> (Ts is in
\* 1/10000 s); a zero denominator is the division by 0.0 numpy carries out
FilterFreq(k, N, ts) == <<k * 10000, N * ts * 2>>

\* what the double f is: "nan" (0/0), "inf" (k/0), or a finite value by sign
FreqClass(fr) ==
    IF fr[2] = 0 THEN (IF fr[1] = 0 THEN "nan" ELSE "inf")
    ELSE IF fr[1] = 0 THEN "zero"
    ELSE IF fr[2] > 0 THEN "pos" ELSE "neg"

\* f + 0.0001 > 0 for a finite negative f = num / den (den < 0)
AboveMinusEps(fr) == fr[1] * 10000 < 0 - fr[2]

\* W_pe = sqrt(1 / (f + epsilon)): positive, 0 at f = inf, NaN where
\* f + epsilon is negative or NaN, inf where it is 0
W_pe(fr) ==
    CASE FreqClass(fr) = "nan" -> "nan"
      [] FreqClass(fr) = "inf" -> "zero"
      [] FreqClass(fr) \in {"zero", "pos"} -> "pos"
      [] FreqClass(fr) = "neg" ->
            IF AboveMinusEps(fr) THEN "pos"
            ELSE IF fr[1] * 10000 = 0 - fr[2] THEN "inf" ELSE "nan"

\* W_hc = 1 / sqrt(1 + 0.694 x^2 + ... + 0.000155 x^12), x = f / 10: the
\* polynomial has even powers only, so W_hc is positive for a finite f
W_hc(fr) ==
    CASE FreqClass(fr) = "nan" -> "nan"
      [] FreqClass(fr) = "inf" -> "zero"
      [] OTHER -> "pos"

\* W_lc = sqrt(1 - exp(-(f / 0.5)^3)): 0 at f = 0, positive for f > 0
\* (1 at inf), the square root of a negative number for f < 0
W_lc(fr) ==
    CASE FreqClass(fr) = "nan" -> "nan"
      [] FreqClass(fr) = "inf" -> "pos"
      [] FreqClass(fr) = "zero" -> "zero"
      [] FreqClass(fr) = "pos" -> "pos"
      [] FreqClass(fr) = "neg" -> "nan"

\* the product of two doubles known by class: NaN absorbs, 0 * inf is NaN
WMul(u, v) ==
    IF u = "nan" \/ v = "nan" THEN "nan"
    ELSE IF {u, v} = {"zero", "inf"} THEN "nan"
    ELSE IF u = "zero" \/ v = "zero" THEN "zero"
    ELSE IF u = "inf" \/ v = "inf" THEN "inf"
    ELSE "pos"

\* W_pe * W_hc * W_lc
Weight(fr) == WMul(WMul(W_pe(fr), W_hc(fr)), W_lc(fr))

IsZero(v) == v.kind = "num" /\ v.val = <<0, 0>>

\* v *= w for a spectral value v and the weight of the frequency fr
Times(v, fr) ==
    CASE v.kind = "nan" \/ Weight(fr) = "nan" -> CNaN
      [] IsZero(v) /\ Weight(fr) = "inf" -> CNaN
      [] IsZero(v) \/ Weight(fr) = "zero" -> CZero
      [] OTHER -> Scaled(v.val, fr)

\* A[:,c] *= (W_pe * W_hc * W_lc)
ScaleColumn(S, c, W) ==
    [k \in DOMAIN S |-> [S[k] EXCEPT ![c] = Times(S[k][c], W[k])]]

\* the frequency vector f of a spectrum of N bins: k = np.arange(N)
FreqVector(N, ts) == [k \in 1..N |-> FilterFreq(k - 1, N, ts)]

\* _filter(A, Ts): the three columns scaled in turn
Filter ==
    /\ pc = "filter"
    /\ f' = FreqVector(Len(A), Ts)
    /\ A' = ScaleColumn(ScaleColumn(ScaleColumn(A, 1, f'), 2, f'), 3, f')
    /\ pc' = "irfft"
    /\ UNCHANGED <<a, Ts, x, aval, xB, avalB, pcB, I_raw, I, lang, name>>

----------------------------------------------------------------------------
(* getShindo *)

\* A = np.fft.rfft(a, axis = 0) on an empty record: numpy raises ValueError
\* (invalid number of data points)
RfftRaises ==
    /\ pc = "rfft"
    /\ Len(a) = 0
    /\ pc' = "ValueError"
    /\ UNCHANGED <<a, A, f, Ts, x, aval, xB, avalB, pcB, I_raw, I, lang, name>>

Rfft ==
    /\ pc = "rfft"
    /\ Len(a) > 0
    /\ A' = rfft(a)
    /\ pc' = "filter"
    /\ UNCHANGED <<a, f, Ts, x, aval, xB, avalB, pcB, I_raw, I, lang, name>>

\* np.fft.irfft(A, axis = 0) returns 2 * (Len(A) - 1) samples
IrfftLen(S) == 2 * (Len(S) - 1)

\* afil = np.fft.irfft(A, axis = 0) on a single bin: numpy raises ValueError
IrfftRaises ==
    /\ pc = "irfft"
    /\ IrfftLen(A) = 0
    /\ pc' = "ValueError"
    /\ UNCHANGED <<a, A, f, Ts, x, aval, xB, avalB, pcB, I_raw, I, lang, name>>

HasNaN(S) == \E k \in DOMAIN S, c \in 1..3 : S[k][c].kind = "nan"
AllBinsZero(S) == \A k \in DOMAIN S, c \in 1..3 : IsZero(S[k][c])

\* the magnitudes a filtered record with a non-zero bin may have: 3000 and
\* 5000 gal
Magnitudes == {<<375, 3>>, <<625, 3>>}

\* afil_total = np.sqrt(np.sum(afil**2, axis = 1)).  The inverse transform
\* is linear: a NaN bin makes every sample NaN, a spectrum of zeros gives
\* zeros.  Any other spectrum carries irrational weights; the magnitudes it
\* gives are left open.
afil_totals(S) ==
    IF HasNaN(S) THEN {[i \in 1..IrfftLen(S) |-> NaN]}
    ELSE IF AllBinsZero(S) THEN {[i \in 1..IrfftLen(S) |-> <<0, Emin>>]}
    ELSE [1..IrfftLen(S) -> Magnitudes]

\* the inverse transform, the magnitude, and the call of _search_aval
Irfft ==
    /\ pc = "irfft"
    /\ IrfftLen(A) > 0
    /\ x' \in afil_totals(A)
    /\ aval' = aval_init
    /\ pc' = "search"
    /\ UNCHANGED <<a, A, f, Ts, xB, avalB, pcB, I_raw, I, lang, name>>

\* the rows of a record, in gal
Rows == {<<0, 0, 0>>, <<3, -4, 12>>}

\* the record lengths with an exact transform
RecordLengths == {0, 1, 2, 4}

InitShindo ==
    /\ a \in UNION {[1..n -> Rows] : n \in RecordLengths}
    /\ Ts \in {-100, 0, 1500, 3000}
    /\ pc = "rfft"
    /\ A = <<>> /\ f = <<>>
    /\ x = <<>> /\ aval = Idle
    /\ xB = <<>> /\ avalB = Idle /\ pcB = "off"
    /\ I_raw = 0 /\ I = 0 /\ lang = "jp" /\ name = <<>>

NextShindo ==
    \/ RfftRaises \/ Rfft \/ Filter \/ IrfftRaises \/ Irfft
    \/ TooHigh \/ TooLow \/ Found

SpecShindo == InitShindo /\ [][NextShindo]_vars /\ WF_vars(NextShindo)

----------------------------------------------------------------------------
(* The last line of getShindo, and getShindoName *)

\* the floor replaced by a cut towards zero: int(r * 10) / 10
FloorTenth_trunc(r) ==
    IF r >= 0 THEN (r \div 10) * 10 ELSE 0 - (((0 - r) \div 10) * 10)

\* I = np.floor(np.round(I_raw, decimals = 2) * 10) / 10, for the rounded
\* value r in hundredths: r * 10 is r / 10 units, floored, and each unit is
\* a tenth
FloorTenth(r) == (r \div 10) * 10

\* the labels, as the code points of their characters
Label0 == <<48>>
Label1 == <<49>>
Label2 == <<50>>
Label3 == <<51>>
Label4 == <<52>>
Label5Lower(l) == IF l = "jp" THEN <<53, 24369>> ELSE <<53, 45>>
Label5Upper(l) == IF l = "jp" THEN <<53, 24375>> ELSE <<53, 43>>
Label6Lower(l) == IF l = "jp" THEN <<54, 24369>> ELSE <<54, 45>>
Label6Upper(l) == IF l = "jp" THEN <<54, 24375>> ELSE <<54, 43>>
Label7 == <<55>>
\* what a function that falls off its last branch returns
None == <<>>

\* the chain with its second test made strict: elif 0.5 < I < 1.5
getShindoName_strict(i, l) ==
    IF i < 50 THEN Label0
    ELSE IF 50 < i /\ i < 150 THEN Label1
    ELSE IF 150 <= i /\ i < 250 THEN Label2
    ELSE IF 250 <= i /\ i < 350 THEN Label3
    ELSE IF 350 <= i /\ i < 450 THEN Label4
    ELSE IF 450 <= i /\ i < 500 THEN Label5Lower(l)
    ELSE IF 500 <= i /\ i < 550 THEN Label5Upper(l)
    ELSE IF 550 <= i /\ i < 600 THEN Label6Lower(l)
    ELSE IF 600 <= i /\ i < 650 THEN Label6Upper(l)
    ELSE IF i >= 650 THEN Label7
    ELSE None

\* getShindoName(I, lang), I in hundredths
getShindoName(i, l) ==
    IF i < 50 THEN Label0
    ELSE IF 50 <= i /\ i < 150 THEN Label1
    ELSE IF 150 <= i /\ i < 250 THEN Label2
    ELSE IF 250 <= i /\ i < 350 THEN Label3
    ELSE IF 350 <= i /\ i < 450 THEN Label4
    ELSE IF 450 <= i /\ i < 500 THEN Label5Lower(l)
    ELSE IF 500 <= i /\ i < 550 THEN Label5Upper(l)
    ELSE IF 550 <= i /\ i < 600 THEN Label6Lower(l)
    ELSE IF 600 <= i /\ i < 650 THEN Label6Upper(l)
    ELSE IF i >= 650 THEN Label7
    ELSE None

\* getShindo's last assignment, from the rounded raw intensity
FloorStep ==
    /\ pc = "floor"
    /\ I' = FloorTenth(I_raw)
    /\ pc' = "floored"
    /\ UNCHANGED <<a, A, f, Ts, x, aval, xB, avalB, pcB, I_raw, lang, name>>

\* getShindoName(I), on getShindo's result or on an intensity of the caller's
NameStep ==
    /\ pc \in {"floored", "name"}
    /\ name' = getShindoName(I, lang)
    /\ pc' = "named"
    /\ UNCHANGED <<a, A, f, Ts, x, aval, xB, avalB, pcB, I_raw, I, lang>>

\* either getShindo's rounded raw intensity, or an intensity handed to
\* getShindoName directly
InitLabel ==
    /\ \/ pc = "floor" /\ I_raw \in (0 - MinI)..MaxI /\ I = 0
       \/ pc = "name" /\ I_raw = 0 /\ I \in (0 - MinI)..MaxI
    /\ lang \in {"jp", "en"}
    /\ name = None
    /\ a = <<>> /\ A = <<>> /\ f = <<>> /\ Ts = 100
    /\ x = <<>> /\ aval = Idle
    /\ xB = <<>> /\ avalB = Idle /\ pcB = "off"

NextLabel == FloorStep \/ NameStep

SpecLabel == InitLabel /\ [][NextLabel]_vars /\ WF_vars(NextLabel)

----------------------------------------------------------------------------
(* Claims about _search_aval *)

\* the number of samples of s at or above t, one sample after the other
RECURSIVE NumAboveFrom(_, _, _)
NumAboveFrom(s, t, i) ==
    IF i > Len(s) THEN 0
    ELSE (IF FGeq(s[i], t) THEN 1 ELSE 0) + NumAboveFrom(s, t, i + 1)

NumAbove(s, t) == NumAboveFrom(s, t, 1)

InBand(n, ts) == (n * ts >= 2997) /\ (n * ts <= 3003)

\* C1: whenever the search has returned aval, the number of samples >= aval
\* times Ts lies in [T_ref - eps, T_ref + eps] = [0.2997, 0.3003]; at
\* Ts = 0.01 s exactly 30 samples are >= aval.
C1_ReturnedInBand ==
    pc = "returned" =>
        /\ InBand(NumAbove(x, aval), Ts)
        /\ (Ts = 100 => NumAbove(x, aval) = 30)

\* the search returned a value it had to step to, at Ts = 0.01 s, with 30
\* samples at or above the value and more samples in the series
C1_Witness ==
    /\ pc = "returned" /\ Ts = 100
    /\ aval # aval_init
    /\ NumAbove(x, aval) = 30 /\ Len(x) > 30

\* C2: if A[i] >= B[i] for every i and both searches returned, the value
\* returned for A is >= the value returned for B.
C2_Monotone ==
    (pc = "returned" /\ pcB = "returned" /\ Dominates(x, xB)) => FGeq(aval, avalB)

\* both searches returned, with different values
C2_Witness ==
    /\ pc = "returned" /\ pcB = "returned" /\ Dominates(x, xB)
    /\ x # xB /\ aval # avalB /\ avalB # aval_init

\* a positive threshold t exists with count(s >= t) * ts in the band: the
\* count changes only at the samples, so the samples are the candidates
ThresholdExists(s, ts) ==
    \E v \in {s[i] : i \in DOMAIN s} :
        /\ v[1] > 0
        /\ InBand(NumAbove(s, v), ts)

\* C5: when a positive threshold in the band exists, the search eventually
\* returns.
C5_Converges == ThresholdExists(x, Ts) => <>(pc = "returned")

\* the model never abandons a search for which a threshold exists
C5_Followed ==
    (pc = "search" /\ ThresholdExists(x, Ts)) => Exact(StepUp(aval))

AllZero(s) == \A i \in DOMAIN s : s[i] = <<0, Emin>>

\* C8: on an all-zero series the search never returns: in every state the
\* exceedance time is below T_ref - eps, so only the halving branch can run.
C8_ZeroNeverReturns ==
    AllZero(x) =>
        /\ pc = "search"
        /\ NumAbove(x, aval) * Ts < 2997
        /\ TooHighAt(x, Ts, aval) /\ ~TooLowAt(x, Ts, aval)

\* a non-empty all-zero series, still searched at the smallest subnormal
C8_Witness ==
    /\ AllZero(x) /\ Len(x) > 0
    /\ pc = "search" /\ aval = <<1, Emin>>

----------------------------------------------------------------------------
(* Claims about getShindo, _filter and getShindoName *)

\* C3: getShindoName returns, for every I and both languages, exactly the
\* label of the table, every boundary belonging to the upper interval, and
\* never falls through without a label.
C3_LabelTable ==
    pc = "named" =>
        /\ name # None
        /\ (I < 50) = (name = <<48>>)
        /\ (50 <= I /\ I < 150) = (name = <<49>>)
        /\ (150 <= I /\ I < 250) = (name = <<50>>)
        /\ (250 <= I /\ I < 350) = (name = <<51>>)
        /\ (350 <= I /\ I < 450) = (name = <<52>>)
        /\ (450 <= I /\ I < 500) = (name = <<53, IF lang = "jp" THEN 24369 ELSE 45>>)
        /\ (500 <= I /\ I < 550) = (name = <<53, IF lang = "jp" THEN 24375 ELSE 43>>)
        /\ (550 <= I /\ I < 600) = (name = <<54, IF lang = "jp" THEN 24369 ELSE 45>>)
        /\ (600 <= I /\ I < 650) = (name = <<54, IF lang = "jp" THEN 24375 ELSE 43>>)
        /\ (I >= 650) = (name = <<55>>)

\* the boundary 5.0 labelled in Japanese
C3_Witness == pc = "named" /\ I = 500 /\ lang = "jp" /\ name = <<53, 24375>>

\* C4: the intensity is the rounded raw value r cut to one decimal by a
\* floor: a multiple of 0.1 with I <= r < I + 0.1, negative r included.
C4_FloorToTenth ==
    pc = "floored" =>
        /\ I % 10 = 0
        /\ I <= I_raw
        /\ I_raw < I + 10

\* a negative raw value between two tenths: -0.25 gives -0.3
C4_Witness == pc = "floored" /\ I_raw = -25 /\ I = -30

InvalidInput == Len(a) = 0 \/ Ts <= 0

\* C6: a call with an empty record or with Ts <= 0 is rejected before any
\* transform is attempted and never enters the search: nothing of getShindo
\* after the forward transform runs on it.  (The ValueError numpy raises on
\* an empty record is taken for the rejection.)
C6_RejectedUpFront ==
    InvalidInput => pc \in {"rfft", "ValueError"} /\ A = <<>>

\* the filter has run
Filtered == pc \in {"irfft", "search", "returned"} \/ (pc = "ValueError" /\ f # <<>>)

\* C9 as stated: bin k is weighted at f_k = k / (N * Ts * 2), N the number
\* of time samples of the record (looked at for the valid periods, Ts > 0).
C9_FreqOfTimeSamples ==
    Filtered /\ Ts > 0 =>
        /\ Len(f) = (Len(a) \div 2) + 1
        /\ \A k \in DOMAIN f :
              f[k][1] * (Len(a) * Ts * 2) = ((k - 1) * 10000) * f[k][2]

\* C9 as amended: bin k is weighted at f_k = k / (N * Ts * 2), N the number
\* of bins of the spectrum, Len(a) \div 2 + 1.
C9_FreqOfBins ==
    Filtered =>
        /\ Len(f) = (Len(a) \div 2) + 1
        /\ \A k \in DOMAIN f :
              /\ f[k][1] * (((Len(a) \div 2) + 1) * Ts * 2) = ((k - 1) * 10000) * f[k][2]
              /\ f[k][2] = 0 <=> Ts = 0
              /\ \A c \in 1..3 :
                    A[k][c].kind = "scaled" =>
                        A[k][c].at = <<(k - 1) * 10000, ((Len(a) \div 2) + 1) * Ts * 2>>

\* a record of 4 samples filtered at Ts = 0.15 s: 3 bins, bin 1 weighted at
\* 1 / (3 * 0.15 * 2) Hz
C9_Witness ==
    /\ pc = "irfft" /\ Len(a) = 4 /\ Ts = 1500
    /\ A[2][1].kind = "scaled" /\ A[2][1].at = <<10000, 9000>>

\* every bin of every channel is its value before the filter times the
\* weight of the bin, the same for the three channels and a function of k,
\* the number of bins and Ts alone; the number of bins is unchanged
FrameOfFilter ==
    /\ Len(A) = Len(rfft(a))
    /\ \A k \in DOMAIN A : \A c \in 1..3 :
          A[k][c] = Times(rfft(a)[k][c], <<(k - 1) * 10000, Len(rfft(a)) * Ts * 2>>)

\* C10: _filter only scales each bin of each channel by the weight of the
\* bin, and a spectrum that is zero in every bin is zero in every bin
\* afterwards.
C10_FilterFrame ==
    Filtered =>
        /\ FrameOfFilter
        /\ AllBinsZero(rfft(a)) => AllBinsZero(A)

\* C10 for the sampling periods the filter is specified for: with Ts > 0
\* the frame holds and zeros stay zeros
C10_FilterFrameValidTs ==
    Filtered =>
        /\ FrameOfFilter
        /\ (Ts > 0 /\ AllBinsZero(rfft(a))) => AllBinsZero(A)

\* a zero spectrum and a non-zero one, filtered at Ts > 0
C10_WitnessZero == Filtered /\ Ts > 0 /\ AllBinsZero(rfft(a)) /\ AllBinsZero(A)
C10_WitnessScaled ==
    /\ Filtered /\ Ts > 0
    /\ \E k \in DOMAIN A : \A c \in 1..3 : A[k][c].kind = "scaled"

====
